---- MODULE Spec2Model ----
(***************************************************************************)
(* RecognizeStream (speech-to-text over a WebSocket): a Node.js Duplex     *)
(* stream that takes binary audio on its writable side, talks to the       *)
(* service over one w3cwebsocket and pushes transcripts to its readable    *)
(* side.  The source is the TypeScript listing in src/README.md, lines     *)
(* 908-1438.  One action per handler or public method; each action is the  *)
(* whole handler, run to completion on Node's single-threaded event loop.  *)
(***************************************************************************)
EXTENDS Integers, Sequences, FiniteSets, TLC

\* ------------------------------------------------------------------ bounds
MaxChunks == 2      \* chunks the caller writes
MaxBuffered == 1    \* cap of socket.bufferedAmount, in frames
HighWaterMark == 0  \* _writableState.highWaterMark, in frames
MaxInitialize == 2  \* runs of initialize() on one options object

\* ------------------------------------------------------------- JS values
\* An object is a function from the property names it has to their values;
\* option values are strings.  Reading a property the object does not have
\* gives undefined.
Absent == "<undefined>"

Get(obj, k) == IF k \in DOMAIN obj THEN obj[k] ELSE Absent

\* obj[k] = v
Put(obj, k, v) ==
  [x \in DOMAIN obj \cup {k} |-> IF x = k THEN v ELSE obj[x]]

\* delete obj[k]
Delete(obj, k) == [x \in DOMAIN obj \ {k} |-> obj[x]]

\* The value false, which a caller may give a flag.
False == "<false>"

\* if (v), !v
Truthy(v) == v # Absent /\ v # "" /\ v # False

\* The empty object {}.
NoOptions == [x \in {} |-> Absent]

OPENING_MESSAGE_PARAMS_ALLOWED ==
  { "action", "customization_weight", "processing_metrics",
    "processing_metrics_interval", "audio_metrics", "inactivity_timeout",
    "timestamps", "word_confidence", "content-type", "interim_results",
    "keywords", "keywords_threshold", "max_alternatives",
    "word_alternatives_threshold", "profanity_filter", "smart_formatting",
    "speaker_labels", "grammar_name", "redaction" }

QUERY_PARAMS_ALLOWED ==
  { "model", "X-Watson-Learning-Opt-Out", "watson-token",
    "language_customization_id", "customization_id",
    "acoustic_customization_id", "access_token", "base_model_version",
    "x-watson-metadata" }

\* object.pick(obj, keys): the properties of obj whose names are in keys.
pick(obj, keys) == [x \in DOMAIN obj \cap keys |-> obj[x]]

\* extend(target, source): source's properties override target's.
extend(target, source) ==
  [x \in DOMAIN target \cup DOMAIN source |->
     IF x \in DOMAIN source THEN source[x] ELSE target[x]]

\* contentType.fromHeader: the first four bytes of the chunk looked up in
\* the table of known file headers; undefined when the header is unknown.
getContentType(chunk) ==
  CASE chunk.hdr = "RIFF" -> "audio/wav"
    [] chunk.hdr = "fLaC" -> "audio/flac"
    [] chunk.hdr = "OggS" -> "audio/ogg"
    [] OTHER -> Absent

\* constructor: objectMode is an alias of readableObjectMode.
Constructor(opts) ==
  IF Truthy(Get(opts, "objectMode"))
    THEN Delete(Put(opts, "readableObjectMode", "true"), "objectMode")
    ELSE opts

\* initialize(), lines 1088-1108: the deprecated option names.
NormalizeToken(o) ==
  IF Truthy(Get(o, "token")) /\ ~Truthy(Get(o, "watson-token"))
    THEN Put(o, "watson-token", o["token"]) ELSE o

\* NormalizeCustomization without the delete of the deprecated name.
NormalizeCustomizationKeepsOld(o) ==
  IF Truthy(Get(o, "customization_id")) /\ ~Truthy(Get(o, "language_customization_id"))
    THEN Put(o, "language_customization_id", o["customization_id"])
    ELSE o

\* NormalizeContentType with the deprecated name left unmapped.
NormalizeContentTypeDropped(o) == o

NormalizeContentType(o) ==
  IF Truthy(Get(o, "content_type")) /\ ~Truthy(Get(o, "content-type"))
    THEN Put(o, "content-type", o["content_type"]) ELSE o

NormalizeOptOut(o) ==
  IF Truthy(Get(o, "X-WDC-PL-OPT-OUT")) /\ ~Truthy(Get(o, "X-Watson-Learning-Opt-Out"))
    THEN Put(o, "X-Watson-Learning-Opt-Out", o["X-WDC-PL-OPT-OUT"]) ELSE o

NormalizeCustomization(o) ==
  IF Truthy(Get(o, "customization_id")) /\ ~Truthy(Get(o, "language_customization_id"))
    THEN Delete(Put(o, "language_customization_id", o["customization_id"]),
                "customization_id")
    ELSE o

Normalize(o) ==
  NormalizeCustomization(NormalizeOptOut(NormalizeContentType(NormalizeToken(o))))

\* initialize(), lines 1110-1115.
QueryParams(o) ==
  extend(IF "language_customization_id" \in DOMAIN o
           THEN pick(o, QUERY_PARAMS_ALLOWED)
           ELSE Put(NoOptions, "model", "en-US_BroadbandModel"),
         pick(o, QUERY_PARAMS_ALLOWED))

\* OpeningMessage without the pick: every option goes into the handshake.
OpeningMessageUnpicked(o) == Put(o, "action", "start")

\* initialize(), lines 1124-1125.
OpeningMessage(o) ==
  Put(pick(o, OPENING_MESSAGE_PARAMS_ALLOWED), "action", "start")

\* ------------------------------------------------------------------ input
\* An audio chunk: its first four bytes, its position in the input and
\* whether this.finished was already set when the caller wrote it.  The
\* first chunk of the input starts with a file header, known or not; the
\* chunks after it are audio data.
FileHeaders == {"RIFF", "fLaC", "junk"}
Headers(seq) == IF seq = 1 THEN FileHeaders ELSE {"data"}
Chunk(hdr, seq, late) == [hdr |-> hdr, seq |-> seq, late |-> late]
NoChunk == Chunk("", 0, FALSE)

\* One element of a results frame's `results` array.  `alternatives` may be
\* missing; when present it holds the transcripts, best first.
Result(final, hasAlternatives, alternatives) ==
  [final |-> final, hasAlternatives |-> hasAlternatives,
   alternatives |-> alternatives]

InterimResult == Result(FALSE, TRUE, <<"hello">>)
FinalResult == Result(TRUE, TRUE, <<"hello world">>)
FinalResultOfTwo == Result(TRUE, TRUE, <<"good bye", "good buy">>)
FinalResultBare == Result(TRUE, FALSE, <<>>)

\* The `results` arrays the service sends.
ResultSeqs ==
  { <<InterimResult, FinalResult>>,
    <<FinalResultOfTwo, FinalResult>>,
    <<FinalResultBare>> }

\* The parsed JSON of a text frame.
Data(error, state, hasResults, results) ==
  [error |-> error, state |-> state, hasResults |-> hasResults, results |-> results]

\* An inbound frame: frame.data is a string or not; a string is well-formed
\* JSON or not; `data` is what JSON.parse returns for it.
Frame(typ, json, data) == [typ |-> typ, json |-> json, data |-> data]

NoData == Data(Absent, Absent, FALSE, <<>>)
NoFrame == Frame("none", FALSE, NoData)
BinaryFrame == Frame("binary", FALSE, NoData)
BadJsonFrame == Frame("string", FALSE, NoData)
ErrorFrame == Frame("string", TRUE, Data("Session timed out.", Absent, FALSE, <<>>))
ListeningFrame == Frame("string", TRUE, Data(Absent, "listening", FALSE, <<>>))
OtherFrame == Frame("string", TRUE, Data(Absent, Absent, FALSE, <<>>))
ResultsFrame(rs) == Frame("string", TRUE, Data(Absent, Absent, TRUE, rs))
ResultsFrames == {ResultsFrame(rs) : rs \in ResultSeqs}

\* The close events of the transport: a normal closure, and a connection
\* that was dropped.
CloseEvent(code, reason) == [code |-> code, reason |-> reason]
CloseEvents ==
  { CloseEvent(1000, "Normal connection closure"),
    CloseEvent(1006, "Socket Error: read ECONNRESET") }

Frames ==
  {BinaryFrame, BadJsonFrame, ErrorFrame, ListeningFrame, OtherFrame}
    \cup ResultsFrames

\* An options object with the properties of `props` that are given a value.
Options(props) ==
  [x \in {k \in DOMAIN props : props[k] # Absent} |-> props[x]]

\* The options objects a caller constructs the stream with.
UserOptions ==
  { Options(("content-type" :> ct) @@ ("content_type" :> lct)
              @@ ("objectMode" :> om) @@ ("readableObjectMode" :> rom)
              @@ ("token_manager" :> tm)) :
      ct \in {Absent, "audio/l16"}, lct \in {Absent, "audio/mulaw"},
      om \in {Absent, "true"}, rom \in {Absent, "true"},
      tm \in {Absent, "manager"} }

\* The options objects initialize() is examined on: every combination of
\* the deprecated names and their successors, of the other names the query
\* and the handshake are built from, and of names that belong to neither.
AllOptions ==
  { Options(("token" :> t) @@ ("watson-token" :> wt)
              @@ ("content_type" :> lct) @@ ("content-type" :> ct)
              @@ ("X-WDC-PL-OPT-OUT" :> lo) @@ ("X-Watson-Learning-Opt-Out" :> o)
              @@ ("customization_id" :> cid) @@ ("language_customization_id" :> lcid)
              @@ ("acoustic_customization_id" :> acid) @@ ("model" :> md)
              @@ ("action" :> act) @@ ("url" :> url) @@ ("objectMode" :> om)) :
      t \in {Absent, "legacy-token"}, wt \in {Absent, "watson-token"},
      lct \in {Absent, "audio/mulaw"}, ct \in {Absent, "audio/l16"},
      lo \in {Absent, "1"}, o \in {Absent, "true", False},
      cid \in {Absent, "legacy-model-id"}, lcid \in {Absent, "language-model-id"},
      acid \in {Absent, "acoustic-model-id"}, md \in {Absent, "ja-JP_NarrowbandModel"},
      act \in {Absent, "stop"}, url \in {Absent, "https://example.test/api"},
      om \in {Absent, "true"} }

\* ------------------------------------------------------------- REST calls
\* The REST methods of PersonalityInsightsV3 and ToneAnalyzerV3 and the
\* parameter each requires.
RestMethods == {"profile", "profileAsCsv", "tone", "toneChat"}

requiredParams(method) ==
  CASE method = "profile" -> "content"
    [] method = "profileAsCsv" -> "content"
    [] method = "tone" -> "tone_input"
    [] method = "toneChat" -> "utterances"

\* What createRequest reports to its callback: (null, body, response), or
\* an error of the service or of the network.
Outcomes == {"ok", "service error", "network error"}

\* The arguments of a callback (err, bod, res).
Args(err, bod, res) == [err |-> err, bod |-> bod, res |-> res]
NoArgs == Args(Absent, Absent, Absent)
MissingArgs == Args("Missing required parameters", Absent, Absent)
OutcomeArgs(outcome) ==
  IF outcome = "ok" THEN Args(Absent, "body", "response")
                    ELSE Args(outcome, Absent, Absent)

\* A call: the method, its params, whether the caller passed a callback,
\* and what has come of it: what the method returned, the state of the
\* Promise and its value, the arguments the caller's callback got on each
\* call of it, the calls of createRequest, and what the request reported.
RestCall(method, params, callback) ==
  [ method |-> method, params |-> params, callback |-> callback,
    phase |-> "new", returned |-> Absent, promise |-> "none",
    value |-> Absent, called |-> <<>>, requests |-> 0, outcome |-> Absent ]

NoCall == RestCall("", NoOptions, FALSE)

RestCalls ==
  { RestCall(method,
             Options((requiredParams(method) :> input)
                       @@ ("return_response" :> rr)),
             callback) :
      method \in RestMethods, input \in {Absent, "input"},
      rr \in {Absent, "true"}, callback \in BOOLEAN }

\* getMissingParams(_params, requiredParams): an error when the required
\* parameter is not given, null otherwise.
getMissingParams(params, required) == required \notin DOMAIN params

\* promiseCallback with body and response the wrong way round.
promiseCallbackSwapped(r, args) ==
  IF Truthy(args.err)
    THEN [r EXCEPT !.promise = "rejected", !.value = args.err]
    ELSE [r EXCEPT !.promise = "resolved",
                   !.value = IF Truthy(Get(r.params, "return_response"))
                               THEN args.bod ELSE args.res]

\* The callback the method passes to itself when the caller gave none:
\* err ? reject(err) : _params.return_response ? resolve(res) : resolve(bod).
\* Settling a Promise that is settled already has no effect.
promiseCallback(r, args) ==
  IF r.promise # "pending"
    THEN r
    ELSE IF Truthy(args.err)
      THEN [r EXCEPT !.promise = "rejected", !.value = args.err]
      ELSE [r EXCEPT !.promise = "resolved",
                     !.value = IF Truthy(Get(r.params, "return_response"))
                                 THEN args.res ELSE args.bod]

\* _callback(...): the caller's callback, or the one of the Promise.
restCallback(r, args) ==
  IF r.callback
    THEN [r EXCEPT !.called = Append(@, args)]
    ELSE promiseCallback(r, args)

\* restRequest without the return after the callback got the error.
restRequestFallsThrough(r) ==
  LET r1 == IF getMissingParams(r.params, requiredParams(r.method))
              THEN restCallback(r, MissingArgs) ELSE r
  IN [r1 EXCEPT !.requests = @ + 1, !.phase = "requested"]

\* The method called with a callback: the required parameter is checked,
\* then the request is created.
restRequest(r) ==
  IF getMissingParams(r.params, requiredParams(r.method))
    THEN [restCallback(r, MissingArgs) EXCEPT !.phase = "done"]
    ELSE [r EXCEPT !.requests = @ + 1, !.phase = "requested"]

\* profile, profileAsCsv, tone, toneChat (params, callback?): without a
\* callback a Promise is returned whose executor calls the method again
\* with a callback; with one, the method returns what the callback or
\* createRequest returns, which is no Promise.
restMethod(r) ==
  IF ~r.callback
    THEN restRequest([r EXCEPT !.returned = "Promise", !.promise = "pending"])
    ELSE restRequest([r EXCEPT !.returned = "void"])

\* createRequest calls back.
restResponse(r, outcome) ==
  [restCallback(r, OutcomeArgs(outcome)) EXCEPT !.phase = "done",
                                                !.outcome = outcome]

\* ------------------------------------------------------------------ state
VARIABLES
  options,         \* this.options
  listening,       \* this.listening
  initialized,     \* this.initialized
  finished,        \* this.finished
  socket,          \* this.socket.readyState, "none" before initialize()
  transport,       \* what the transport has dispatched: "live", "failed", "closed"
  bufferedAmount,  \* this.socket.bufferedAmount
  openingMessage,  \* the handshake initialize() built
  queryParams,     \* the query of the URL initialize() built
  onceOpen,        \* the once('open') listeners, in registration order
  pc,              \* where the current _write is
  cur,             \* the chunk of the current _write
  wbuf,            \* chunks the Writable buffers behind the current _write
  ending,          \* end() was called on the writable side
  written,         \* chunks the caller wrote so far
  ended,           \* push(null) was called
  errors,          \* names of the 'error' events of the last step
  sendCalls,       \* every socket.send call, with the state of the socket it met
  heard,           \* a {state: 'listening'} frame has been received
  lastFrame,       \* the inbound frame the last step handled, if it handled one
  emitted,         \* the 'data' events of the last step, in order
  events,          \* the other events the last step emitted, in order
  sockets,         \* the w3cWebSocket objects constructed so far
  rest             \* a call of a REST method (profile, profileAsCsv, tone, toneChat)

vars ==
  << options, listening, initialized, finished, socket, transport,
     bufferedAmount, openingMessage, queryParams, onceOpen, pc, cur, wbuf,
     ending, written, ended, errors, sendCalls, heard, lastFrame, emitted,
     events, sockets, rest >>

\* The stream as one record, so that a handler is a function from the state
\* before it to the state after it and handlers compose as the code calls them.
\* A step starts with no frame in hand and no 'data' or 'error' event emitted.
Self ==
  [ options |-> options, listening |-> listening, initialized |-> initialized,
    finished |-> finished, socket |-> socket, transport |-> transport,
    bufferedAmount |-> bufferedAmount, openingMessage |-> openingMessage,
    queryParams |-> queryParams, onceOpen |-> onceOpen, pc |-> pc, cur |-> cur,
    wbuf |-> wbuf, ending |-> ending, written |-> written,
    ended |-> ended, errors |-> {}, sendCalls |-> sendCalls, heard |-> heard,
    lastFrame |-> NoFrame, emitted |-> <<>>, events |-> <<>>,
    sockets |-> sockets ]

Becomes(m) ==
  /\ options' = m.options
  /\ listening' = m.listening
  /\ initialized' = m.initialized
  /\ finished' = m.finished
  /\ socket' = m.socket
  /\ transport' = m.transport
  /\ bufferedAmount' = m.bufferedAmount
  /\ openingMessage' = m.openingMessage
  /\ queryParams' = m.queryParams
  /\ onceOpen' = m.onceOpen
  /\ pc' = m.pc
  /\ cur' = m.cur
  /\ wbuf' = m.wbuf
  /\ ending' = m.ending
  /\ written' = m.written
  /\ ended' = m.ended
  /\ errors' = m.errors
  /\ sendCalls' = m.sendCalls
  /\ heard' = m.heard
  /\ lastFrame' = m.lastFrame
  /\ emitted' = m.emitted
  /\ events' = m.events
  /\ sockets' = m.sockets
  /\ rest' = rest

\* The fields of a stream right after construction, its options apart.
Constructed ==
  /\ listening = FALSE
  /\ initialized = FALSE
  /\ finished = FALSE
  /\ socket = "none"
  /\ transport = "live"
  /\ bufferedAmount = 0
  /\ openingMessage = NoOptions
  /\ queryParams = NoOptions
  /\ onceOpen = <<>>
  /\ pc = "idle"
  /\ cur = NoChunk
  /\ wbuf = <<>>
  /\ ending = FALSE
  /\ written = 0
  /\ ended = FALSE
  /\ errors = {}
  /\ sendCalls = <<>>
  /\ heard = FALSE
  /\ lastFrame = NoFrame
  /\ emitted = <<>>
  /\ events = <<>>
  /\ sockets = 0

Init ==
  /\ options \in {Constructor(o) : o \in UserOptions}
  /\ Constructed
  /\ rest = NoCall


\* --------------------------------------------------------------- handlers
Min(a, b) == IF a < b THEN a ELSE b

\* Readable.push(data): the data reaches the reader as a 'data' event; data
\* pushed after the end of the stream is not delivered and Node reports an
\* error instead.
push(m, data) ==
  IF m.ended
    THEN [m EXCEPT !.errors = @ \cup {"stream.push() after EOF"}]
    ELSE [m EXCEPT !.emitted = Append(@, data)]

\* Readable.push(null)
pushNull(m) == [m EXCEPT !.ended = TRUE]

\* emit('error', err)
emitError(m, name) == [m EXCEPT !.errors = @ \cup {name}]

\* An event other than 'data' and 'error': its name and, for 'close', the
\* code and the reason it carries.
Event(name, code, reason) == [name |-> name, code |-> code, reason |-> reason]

\* emit(name)
emit(m, name) == [m EXCEPT !.events = Append(@, Event(name, 0, ""))]

\* One call of socket.send: what was passed, the socket's readyState at the
\* call and whether its close event had fired.
SendCall(kind, msg, chunk, rs, closed) ==
  [kind |-> kind, msg |-> msg, chunk |-> chunk, rs |-> rs, closed |-> closed]

\* socket.send(x): w3cwebsocket queues x when the socket is open and throws
\* otherwise; the call is recorded either way.
socketSend(m, kind, msg, chunk) ==
  [m EXCEPT !.sendCalls = Append(@, SendCall(kind, msg, chunk, m.socket,
                                             m.transport = "closed")),
            !.bufferedAmount =
               IF m.socket = "OPEN" THEN Min(@ + 1, MaxBuffered) ELSE @]

sendJSON(m, msg) == socketSend(emit(m, "send-json"), "json", msg, NoChunk)

sendData(m, chunk) == socketSend(emit(m, "send-data"), "binary", NoOptions, chunk)

closingMessage == Put(NoOptions, "action", "stop")

\* afterSend without the test of bufferedAmount.
afterSendUnchecked(m) == [m EXCEPT !.pc = "tick"]

\* afterSend(next): next is scheduled when the socket's buffer is at or
\* below the high-water mark, else the check is repeated 10 ms later.
afterSend(m) ==
  IF m.bufferedAmount <= HighWaterMark
    THEN [m EXCEPT !.pc = "tick"]
    ELSE [m EXCEPT !.pc = "poll"]

\* sendData(chunk); afterSend(callback): a send that throws ends the handler
\* before afterSend, so the write's callback is never called.
sendChunk(m) ==
  IF m.socket = "OPEN"
    THEN afterSend(sendData(m, m.cur))
    ELSE [sendData(m, m.cur) EXCEPT !.pc = "stuck"]

\* finish() without its guard on this.finished.
finishUnguarded(m) ==
  IF m.socket = "OPEN"
    THEN sendJSON([m EXCEPT !.finished = TRUE], closingMessage)
    ELSE [m EXCEPT !.finished = TRUE, !.onceOpen = Append(@, "stop")]

\* finish() without the assignment of this.finished.
finishKeepsFlag(m) ==
  IF m.finished
    THEN m
    ELSE IF m.socket = "OPEN"
           THEN sendJSON(m, closingMessage)
           ELSE [m EXCEPT !.onceOpen = Append(@, "stop")]

\* finish() waiting for 'open' whatever the socket's readyState.
finishAlwaysDefers(m) ==
  IF m.finished
    THEN m
    ELSE [m EXCEPT !.finished = TRUE, !.onceOpen = Append(@, "stop")]

\* finish() registering its listener ahead of those registered before
\* (prependOnceListener).
finishPrepends(m) ==
  IF m.finished
    THEN m
    ELSE IF m.socket = "OPEN"
           THEN sendJSON([m EXCEPT !.finished = TRUE], closingMessage)
           ELSE [m EXCEPT !.finished = TRUE, !.onceOpen = <<"stop">> \o @]

\* finish()
finish(m) ==
  IF m.finished
    THEN m
    ELSE IF m.socket = "OPEN"
           THEN sendJSON([m EXCEPT !.finished = TRUE], closingMessage)
           ELSE [m EXCEPT !.finished = TRUE, !.onceOpen = Append(@, "stop")]

\* initialize() with the query and the handshake built before the
\* deprecated names are mapped.
initializeBuildsFirst(m) ==
  [m EXCEPT !.options = Normalize(m.options),
            !.queryParams = QueryParams(m.options),
            !.openingMessage = OpeningMessage(m.options),
            !.socket = "CONNECTING",
            !.sockets = @ + 1,
            !.initialized = TRUE]

\* initialize(): the options are normalized, the query and the handshake
\* are built from them, the socket is created and the handlers are set.
initialize(m) ==
  LET o == Normalize(m.options) IN
  [m EXCEPT !.options = o,
            !.queryParams = QueryParams(o),
            !.openingMessage = OpeningMessage(o),
            !.socket = "CONNECTING",
            !.sockets = @ + 1,
            !.initialized = TRUE]

\* unrecognizedFormat without its return: the error is emitted and the
\* connection is opened all the same.
unrecognizedFormatFallsThrough(m) ==
  [initialize(pushNull(emitError(m, "UNRECOGNIZED_FORMAT")))
     EXCEPT !.onceOpen = Append(@, "data"), !.pc = "open"]

\* _write, lines 1344-1350: no content type could be determined.  The
\* write's callback is never called.
unrecognizedFormat(m) ==
  [pushNull(emitError(m, "UNRECOGNIZED_FORMAT")) EXCEPT !.pc = "stuck"]

\* sendOnOpen completing the write at once instead of holding the chunk for
\* the 'open' event.
sendOnOpenCompleted(m) == [m EXCEPT !.pc = "tick"]

\* _write, lines 1355-1358: the chunk is sent when 'open' is emitted.
sendOnOpen(m) == [m EXCEPT !.onceOpen = Append(@, "data"), !.pc = "open"]

\* _write, lines 1338-1362: the first chunk opens the connection, with the
\* content type configured or else sniffed from the chunk, and is sent when
\* the socket opens; a later chunk is sent at once.
writeChunk(m) ==
  IF ~m.initialized
    THEN IF ~Truthy(Get(m.options, "content-type"))
            /\ ~Truthy(Get(m.options, "content_type"))
           THEN LET ct == getContentType(m.cur) IN
                IF Truthy(ct)
                  THEN sendOnOpen(initialize(
                         [m EXCEPT !.options = Put(@, "content-type", ct)]))
                  ELSE unrecognizedFormat(m)
           ELSE sendOnOpen(initialize(m))
    ELSE sendChunk(m)

\* writeBody without the test of this.finished.
writeBodyUnguarded(m) == writeChunk(m)

\* writeBody opening a connection whenever the socket is not connecting or
\* open, instead of when this.initialized is not set.
writeBodyReconnects(m) ==
  IF m.finished
    THEN [m EXCEPT !.pc = "stuck"]
    ELSE writeChunk([m EXCEPT !.initialized = m.socket \in {"CONNECTING", "OPEN"}])

\* The callback _write passes to setAuthorizationHeaderToken, called
\* without an error.  A return without afterSend leaves the write's
\* callback uncalled for good.
writeBody(m) ==
  IF m.finished
    THEN [m EXCEPT !.pc = "stuck"]
    ELSE writeChunk(m)

\* The same callback called with an error.
writeFailed(m) == [pushNull(emitError(m, "TokenError")) EXCEPT !.pc = "stuck"]

\* The callback of token_manager.getToken: on an error the write's callback
\* is called with it, and then (there is no return) the header is set and
\* the callback is called again without an error.
tokenCallback(m, err) ==
  LET m1 == IF err THEN writeFailed(m) ELSE m
      m2 == [m1 EXCEPT !.options =
                          Put(@, "headers",
                              IF err THEN "Bearer undefined" ELSE "Bearer token")]
  IN writeBody(m2)

\* _write(chunk, encoding, callback), chunk being m.cur
write(m) ==
  IF Truthy(Get(m.options, "token_manager"))
    THEN [m EXCEPT !.pc = "token"]
    ELSE writeBody(m)

\* The Writable emits 'finish'; initialize() has bound finish() to it.
emitFinish(m) ==
  IF m.initialized THEN finish(emit(m, "finish")) ELSE emit(m, "finish")

\* Writable.end(): no chunk is accepted any more, and 'finish' is emitted
\* once no write is pending.
end(m) ==
  IF m.pc = "idle"
    THEN emitFinish([m EXCEPT !.ending = TRUE])
    ELSE [m EXCEPT !.ending = TRUE]

\* The write's callback: the Writable starts the next buffered write, or
\* becomes idle and, when end() was called, emits 'finish'.
onwrite(m) ==
  IF m.wbuf # <<>>
    THEN write([m EXCEPT !.cur = Head(m.wbuf), !.wbuf = Tail(m.wbuf)])
    ELSE LET idle == [m EXCEPT !.pc = "idle", !.cur = NoChunk] IN
         IF m.ending THEN emitFinish(idle) ELSE idle

\* emit('open'): the once('open') listeners run in registration order.
RECURSIVE emitOpen(_, _)
emitOpen(m, listeners) ==
  IF listeners = <<>>
    THEN m
    ELSE emitOpen(IF Head(listeners) = "data"
                    THEN sendChunk(m)
                    ELSE sendJSON(m, closingMessage),
                  Tail(listeners))

\* socket.onopen emitting 'open' before it sends the handshake.
onopenEmitsFirst(m) ==
  sendJSON(emitOpen(emit([m EXCEPT !.socket = "OPEN", !.onceOpen = <<>>], "open"),
                    m.onceOpen),
           m.openingMessage)

\* socket.onopen
onopen(m) ==
  emitOpen(emit(sendJSON([m EXCEPT !.socket = "OPEN", !.onceOpen = <<>>],
                         m.openingMessage),
                "open"),
           m.onceOpen)

\* socket.onerror without push(null).
onerrorKeepsOutput(m) ==
  emitError([m EXCEPT !.listening = FALSE], "WebSocket connection error")

\* socket.onerror
onerror(m) ==
  pushNull(emitError([m EXCEPT !.listening = FALSE], "WebSocket connection error"))

\* socket.onclose emitting 'close' without the event's code and reason.
oncloseWithoutArgs(m, e) ==
  emit(pushNull([m EXCEPT !.listening = FALSE]), "close")

\* socket.onclose
onclose(m, e) ==
  [pushNull([m EXCEPT !.listening = FALSE])
     EXCEPT !.events = Append(@, Event("close", e.code, e.reason))]

\* socket.close()
socketClose(m) ==
  [m EXCEPT !.socket = IF @ \in {"CONNECTING", "OPEN"} THEN "CLOSING" ELSE @]

\* pushFinals without the test of result.final.
RECURSIVE pushEvery(_, _)
pushEvery(m, results) ==
  IF results = <<>>
    THEN m
    ELSE LET result == Head(results) IN
         pushEvery(IF result.hasAlternatives
                     THEN push(m, result.alternatives[1])
                     ELSE m,
                   Tail(results))

\* data.results.forEach: the first alternative of each final result that
\* has alternatives is pushed.
RECURSIVE pushFinals(_, _)
pushFinals(m, results) ==
  IF results = <<>>
    THEN m
    ELSE LET result == Head(results) IN
         pushFinals(IF result.final /\ result.hasAlternatives
                      THEN push(m, result.alternatives[1])
                      ELSE m,
                    Tail(results))

\* The branch of socket.onmessage for a frame that is neither an error nor
\* a listening frame.
onresults(m, data) ==
  IF Truthy(Get(m.options, "readableObjectMode"))
    THEN push(m, data)
    ELSE IF data.hasResults THEN pushFinals(m, data.results) ELSE m

\* onlistening without the call of socket.close().
onlisteningKeepsOpen(m) == [m EXCEPT !.listening = ~@]

\* onlistening falling through to the branch for results.
onlisteningFallsThrough(m) == onresults(m, ListeningFrame.data)

\* The branch of socket.onmessage for {state: 'listening'}.
onlistening(m) ==
  IF m.listening
    THEN socketClose([m EXCEPT !.listening = FALSE])
    ELSE [m EXCEPT !.listening = TRUE]


\* socket.onmessage
onmessage(m, frame) ==
  IF frame.typ # "string"
    THEN emitError(m, "Unexpected binary data received from server")
    ELSE IF ~frame.json
      THEN emitError(m, "Invalid JSON received from service:")
      ELSE LET data == frame.data IN
           IF Truthy(data.error)
             THEN emitError(m, data.error)
             ELSE IF data.state = "listening"
               THEN onlistening([m EXCEPT !.heard = TRUE])
               ELSE onresults(m, data)

\* ---------------------------------------------------------------- actions
\* The caller writes a chunk: the Writable calls _write at once when no
\* write is in progress and buffers the chunk otherwise.
Write ==
  \E h \in Headers(written + 1) :
    /\ ~ending
    /\ written < MaxChunks
    /\ LET chunk == Chunk(h, written + 1, finished)
           m == [Self EXCEPT !.written = written + 1] IN
       Becomes(IF pc = "idle"
                 THEN write([m EXCEPT !.cur = chunk])
                 ELSE [m EXCEPT !.wbuf = Append(@, chunk)])

\* token_manager.getToken calls back, with a token or with an error.
TokenReturn ==
  \E err \in BOOLEAN :
    /\ pc = "token"
    /\ Becomes(tokenCallback(Self, err))

\* The 10 ms timer of afterSend fires.
Poll ==
  /\ pc = "poll"
  /\ Becomes(afterSend(Self))

\* The callback afterSend scheduled with process.nextTick runs.
Tick ==
  /\ pc = "tick"
  /\ Becomes(onwrite(Self))

\* The caller ends the input: 'finish' is emitted once no write is pending.
End ==
  /\ ~ending
  /\ Becomes(end(Self))

\* The caller calls stop(): emit('stop'), then finish().
Stop == Becomes(finish(Self))

\* The caller calls finish().
Finish == Becomes(finish(Self))

\* The transport opens.
SocketOpen ==
  /\ socket = "CONNECTING"
  /\ transport = "live"
  /\ Becomes(onopen(Self))

\* The transport fails: connecting failed, or the connection broke.  The
\* close event follows; no message does.
SocketError ==
  /\ socket \in {"CONNECTING", "OPEN", "CLOSING"}
  /\ transport = "live"
  /\ Becomes(onerror([Self EXCEPT !.transport = "failed",
                                  !.socket = IF @ = "CONNECTING" THEN "CLOSED" ELSE @]))

\* The transport closes: after a failure, with the code of an abnormal
\* closure; after the local close(), with the code of a normal one; or
\* because the service closed the connection, with the code it chose.
SocketClose ==
  \E e \in CloseEvents :
    /\ \/ transport = "failed" /\ e.code = 1006
       \/ transport = "live" /\ socket = "CLOSING" /\ e.code = 1000
       \/ transport = "live" /\ socket = "OPEN"
    /\ Becomes(onclose([Self EXCEPT !.transport = "closed", !.socket = "CLOSED"], e))

\* The transport delivers a frame.
SocketMessage ==
  \E frame \in Frames :
    /\ socket \in {"OPEN", "CLOSING"}
    /\ transport = "live"
    /\ Becomes(onmessage([Self EXCEPT !.lastFrame = frame], frame))

\* The network takes a queued frame off the socket's buffer; a transport
\* that failed or closed takes none.
Drain ==
  /\ bufferedAmount > 0
  /\ socket \in {"OPEN", "CLOSING"}
  /\ transport = "live"
  /\ Becomes([Self EXCEPT !.bufferedAmount = bufferedAmount - 1])

Next ==
  \/ Write
  \/ TokenReturn
  \/ Poll
  \/ Tick
  \/ End
  \/ Stop
  \/ Finish
  \/ SocketOpen
  \/ SocketError
  \/ SocketClose
  \/ SocketMessage
  \/ Drain

Spec == Init /\ [][Next]_vars



\* initialize() on its own, over every options object of AllOptions:
\* called on a new stream, and called once more on the options it left.
OptInit ==
  /\ options \in {Constructor(o) : o \in AllOptions}
  /\ Constructed
  /\ rest = NoCall

Initialize ==
  /\ ~initialized
  /\ Becomes(initialize(Self))

Reinitialize ==
  /\ initialized
  /\ sockets < MaxInitialize
  /\ Becomes(initialize(Self))

OptNext ==
  \/ Initialize
  \/ Reinitialize

OptSpec == OptInit /\ [][OptNext]_vars

\* The REST methods on their own: one call of one method, and the answer to
\* the request it made.
RestInit ==
  /\ options = NoOptions
  /\ Constructed
  /\ rest \in RestCalls

UnchangedStream ==
  UNCHANGED << options, listening, initialized, finished, socket, transport,
               bufferedAmount, openingMessage, queryParams, onceOpen, pc, cur,
               wbuf, ending, written, ended, errors, sendCalls, heard,
               lastFrame, emitted, events, sockets >>

CallMethod ==
  /\ rest.phase = "new"
  /\ rest' = restMethod(rest)
  /\ UnchangedStream

Respond ==
  \E outcome \in Outcomes :
    /\ rest.phase = "requested"
    /\ rest' = restResponse(rest, outcome)
    /\ UnchangedStream

RestNext ==
  \/ CallMethod
  \/ Respond

RestSpec == RestInit /\ [][RestNext]_vars

\* ----------------------------------------------------------------- claims
IsStart(call) == call.kind = "json" /\ Get(call.msg, "action") = "start"
IsStop(call) == call.kind = "json" /\ Get(call.msg, "action") = "stop"
IsBinary(call) == call.kind = "binary"

BinaryCalls == {i \in DOMAIN sendCalls : IsBinary(sendCalls[i])}
StopCalls == {i \in DOMAIN sendCalls : IsStop(sendCalls[i])}

TextMode == ~Truthy(Get(options, "readableObjectMode"))
ObjectMode == Truthy(Get(options, "readableObjectMode"))

\* C1: no binary chunk is passed to socket.send before the first
\* {state: 'listening'} frame has been received.
C1_NoAudioBeforeListening == BinaryCalls # {} => heard

\* C2: the {action: 'stop'} frame is passed to socket.send at most once, and
\* once finish() has run on an open socket it has been sent exactly once,
\* however often finish() and stop() are called.
C2_StopAtMostOnce ==
  /\ Cardinality(StopCalls) <= 1
  /\ (finished /\ socket = "OPEN") => Cardinality(StopCalls) = 1

\* finish() has sent the stop frame and the socket is still open, so that
\* an unguarded second finish() would send it again.
C2_Witness == finished /\ socket = "OPEN" /\ Cardinality(StopCalls) = 1

\* C3: socket.send is never called once the close event of the
\* socket has fired.
C3_NoSendAfterClose == \A i \in DOMAIN sendCalls : ~sendCalls[i].closed

\* C4: the step that handles a frame carrying `error` emits the
\* error and ends the output sequence.
C4_ErrorFrameEndsOutput ==
  lastFrame = ErrorFrame => (lastFrame.data.error \in errors /\ ended)

\* C5: the step that handles a binary frame or a frame that is
\* not well-formed JSON emits an error and ends the output sequence.
C5_MalformedFrameEndsOutput ==
  lastFrame \in {BinaryFrame, BadJsonFrame} => (errors # {} /\ ended)

\* The steps that are not the caller's: timers, callbacks and the transport.
Progress ==
  \/ TokenReturn
  \/ Poll
  \/ Tick
  \/ SocketOpen
  \/ SocketError
  \/ SocketClose
  \/ SocketMessage
  \/ Drain

\* C6: once the caller has ended the input or called stop() or
\* finish(), the output sequence ends; so whenever it has not ended yet,
\* some step of the stream or of the transport is still to come.
C6_EndsOrProgresses == (ending \/ finished) => (ended \/ ENABLED Progress)

\* The step in which the callback of _write runs for the first chunk of the
\* input.
FirstChunkProcessed ==
  /\ cur'.seq = 1
  /\ pc' # "token"
  /\ pc = "token" \/ (pc = "idle" /\ written = 0 /\ written' = 1)

NoContentType(o) ==
  ~Truthy(Get(o, "content-type")) /\ ~Truthy(Get(o, "content_type"))

PushFailsUnrecognized ==
  /\ "UNRECOGNIZED_FORMAT" \in errors'
  /\ ended'
  /\ ~initialized'
  /\ socket' = "none"
  /\ sendCalls' = <<>>

ExpectedContentType(o, chunk) ==
  IF Truthy(Get(o, "content-type")) THEN o["content-type"]
  ELSE IF Truthy(Get(o, "content_type")) THEN o["content_type"]
  ELSE getContentType(chunk)

\* C8: the handshake that initialize() builds carries the configured content
\* type when one is configured (the sniffer is not consulted) and the type
\* sniffed from the first chunk otherwise; it is not changed afterwards, and
\* it is the handshake sent.
C8_HandshakeContentType ==
  /\ [][(~initialized /\ initialized')
          => Get(openingMessage', "content-type")
               = ExpectedContentType(options, cur')]_vars
  /\ [][initialized => openingMessage' = openingMessage]_vars
  /\ [](\A i \in DOMAIN sendCalls :
          IsStart(sendCalls[i]) => sendCalls[i].msg = openingMessage)

\* A handshake was sent with the content type sniffed from a WAV header.
C8_Witness ==
  /\ \E i \in DOMAIN sendCalls :
       IsStart(sendCalls[i]) /\ Get(sendCalls[i].msg, "content-type") = "audio/wav"
  /\ ~Truthy(Get(options, "content_type"))

\* The results of a results frame that are final, in frame order.
FinalResults(frame) == SelectSeq(frame.data.results, LAMBDA r : r.final)

\* C9, as stated: in text mode a results frame yields one data event for
\* each result flagged final, in frame order, each the result's transcript.
C9_OneChunkPerFinal ==
  (TextMode /\ lastFrame \in ResultsFrames) =>
    LET finals == FinalResults(lastFrame) IN
    /\ Len(emitted) = Len(finals)
    /\ \A i \in 1..Len(finals) :
         finals[i].hasAlternatives => emitted[i] = finals[i].alternatives[1]

\* C9, amended: in text mode, while the output sequence has not ended, a
\* results frame yields one data event for each result that is flagged final
\* and has alternatives, in frame order, each the transcript of the result's
\* first alternative; after the end of the output it yields none.
C9_OneChunkPerFinalWithAlternatives ==
  (TextMode /\ lastFrame \in ResultsFrames) =>
    LET finals == SelectSeq(lastFrame.data.results,
                            LAMBDA r : r.final /\ r.hasAlternatives) IN
    IF ended
      THEN emitted = <<>>
      ELSE emitted = [i \in 1..Len(finals) |-> finals[i].alternatives[1]]

\* The frame with an interim and a final result has yielded "hello world".
C9_Witness ==
  /\ TextMode
  /\ lastFrame = ResultsFrame(<<InterimResult, FinalResult>>)
  /\ emitted = <<"hello world">>

\* C10: in object mode every results frame yields exactly one
\* data event, the frame's content with its results unfiltered.
C10_OneEventPerFrame ==
  (ObjectMode /\ lastFrame \in ResultsFrames) => emitted = <<lastFrame.data>>

\* The socket's buffer is above the high-water mark.
AboveMark == bufferedAmount > HighWaterMark

\* A step in which a chunk is passed to socket.send.
SendsChunk == Cardinality(BinaryCalls') > Cardinality(BinaryCalls)

\* A step in which a stop frame is passed to socket.send after everything
\* else the step sends.
SendsStopLast ==
  /\ Len(sendCalls') > Len(sendCalls)
  /\ IsStop(sendCalls'[Len(sendCalls')])

SentChunks ==
  [i \in 1..Cardinality(BinaryCalls) |->
     LET calls == SelectSeq(sendCalls, IsBinary) IN calls[i].chunk]

Unlisted(o) == DOMAIN o \ (QUERY_PARAMS_ALLOWED \cup OPENING_MESSAGE_PARAMS_ALLOWED)

\* C13: the query initialize() builds has only names of
\* QUERY_PARAMS_ALLOWED and the handshake only names of
\* OPENING_MESSAGE_PARAMS_ALLOWED; no other option is in either.
C13_OnlyAllowedKeys ==
  /\ DOMAIN queryParams \subseteq QUERY_PARAMS_ALLOWED
  /\ DOMAIN openingMessage \subseteq OPENING_MESSAGE_PARAMS_ALLOWED
  /\ \A k \in Unlisted(options) :
       k \notin DOMAIN queryParams /\ k \notin DOMAIN openingMessage

\* initialize() has run on options that carry names of both lists and names
\* of neither.
C13_Witness ==
  /\ initialized
  /\ {"url", "token", "readableObjectMode"} \subseteq Unlisted(options)
  /\ Get(queryParams, "model") = "ja-JP_NarrowbandModel"
  /\ Get(openingMessage, "content-type") = "audio/l16"

\* C14: the mapping of the deprecated names is idempotent: initialize()
\* run on the options a first run left builds the same options, the same
\* query and the same handshake.
C14_NormalizeIdempotent ==
  [][initialized =>
       /\ options' = options
       /\ queryParams' = queryParams
       /\ openingMessage' = openingMessage]_vars

\* The first run has mapped and removed the deprecated customization_id.
C14_Witness ==
  /\ initialized
  /\ Get(options, "language_customization_id") = "legacy-model-id"
  /\ "customization_id" \notin DOMAIN options
  /\ Get(options, "watson-token") = "legacy-token"
  /\ Get(options, "content-type") = "audio/mulaw"

\* C15: a chunk the caller writes once this.finished is set is never passed
\* to socket.send: its _write returns at the test of the flag, at once or
\* when the token arrives, and never completes.
C15_NoChunkAfterFinished ==
  /\ \A i \in BinaryCalls : ~sendCalls[i].chunk.late
  /\ cur.late => (finished /\ pc \in {"token", "stuck"})

\* On an open socket a first chunk was sent, stop() or finish() was called,
\* and the chunk written after that has been dropped.
C15_Witness ==
  /\ finished /\ socket = "OPEN"
  /\ cur.late /\ cur.seq = 2 /\ pc = "stuck"
  /\ Len(SentChunks) = 1

\* C16: the step that handles a {state: 'listening'} frame emits no 'data'
\* event, in text mode and in object mode.
C16_NoDataForListening == lastFrame = ListeningFrame => emitted = <<>>

\* In object mode, where every other well-formed frame is passed on, a
\* listening frame has been handled with the output sequence still open.
C16_Witness ==
  /\ lastFrame = ListeningFrame
  /\ ObjectMode
  /\ ~ended
  /\ listening

\* C17: a REST method called without a callback returns a Promise, which
\* is rejected with the error when the request fails and is otherwise
\* resolved with the body, or with the whole response when return_response
\* is set; called with a callback it returns no Promise, and the callback
\* gets the outcome, once.
C17_PromiseOrCallback ==
  /\ rest.phase # "new" =>
       IF rest.callback
         THEN rest.returned # "Promise" /\ rest.promise = "none"
         ELSE rest.returned = "Promise" /\ rest.called = <<>>
  /\ rest.phase = "requested" =>
       rest.called = <<>> /\ rest.promise \in {"none", "pending"}
  /\ (rest.phase = "done" /\ rest.outcome # Absent) =>
       IF rest.callback
         THEN rest.called = <<OutcomeArgs(rest.outcome)>>
         ELSE IF rest.outcome = "ok"
           THEN /\ rest.promise = "resolved"
                /\ rest.value = IF Truthy(Get(rest.params, "return_response"))
                                   THEN "response" ELSE "body"
           ELSE rest.promise = "rejected" /\ rest.value = rest.outcome

\* A call without a callback and with return_response set has been answered
\* and its Promise is resolved with the response.
C17_Witness ==
  /\ ~rest.callback /\ rest.returned = "Promise"
  /\ Get(rest.params, "return_response") = "true"
  /\ rest.outcome = "ok"
  /\ rest.promise = "resolved" /\ rest.value = "response"

\* A step in which the stream calls socket.close() on a socket that is
\* connecting or open.
ClosesSocket == socket # "CLOSING" /\ socket' = "CLOSING"

\* C18: the stream calls socket.close() only while it handles a listening
\* frame that arrives after finish() has run and the stop frame has been
\* sent; a listening frame that arrives while no finish was requested does
\* not close the socket.
C18_ClosesOnlyAfterStop ==
  [][ClosesSocket =>
       (lastFrame' = ListeningFrame /\ finished /\ StopCalls # {})]_vars

\* C19: once the stop frame has been sent and a first listening frame has
\* been received, the step that handles the next listening frame calls
\* socket.close() and clears this.listening; and the step that handles the
\* close event ends the output sequence.
C19_SecondListeningCloses ==
  /\ [][(StopCalls # {} /\ heard /\ socket = "OPEN"
            /\ lastFrame' = ListeningFrame)
          => (socket' = "CLOSING" /\ ~listening')]_vars
  /\ [][(transport # "closed" /\ transport' = "closed")
          => (ended' /\ ~listening' /\ socket' = "CLOSED")]_vars

\* The stop frame was sent, the second listening frame has made the stream
\* close the socket, and the output sequence is still open until the close
\* event comes.
C19_Witness ==
  /\ StopCalls # {} /\ finished
  /\ lastFrame = ListeningFrame
  /\ socket = "CLOSING" /\ ~listening /\ ~ended

\* C20: the step in which the token manager reports a failure emits the
\* error and ends the output sequence, passes nothing to socket.send,
\* creates no socket and registers nothing on one.
C20_TokenFailureIsTerminal ==
  [][(pc = "token" /\ "TokenError" \in errors') =>
       /\ ended'
       /\ sendCalls' = sendCalls
       /\ socket' = socket /\ initialized' = initialized
       /\ onceOpen' = onceOpen]_vars

\* C21: once the output sequence has ended, no step pushes data to the
\* read side: none emits a 'data' event, and none calls push() with data,
\* which the Readable would answer with the error 'stream.push() after EOF'.
C21_NoPushAfterEnd ==
  ended => (emitted = <<>> /\ "stream.push() after EOF" \notin errors)

\* C22: every binary chunk passed to socket.send precedes the stop frame.
C22_NoChunkAfterStop ==
  \A i \in StopCalls : \A j \in BinaryCalls : j < i

\* The second chunk, written before stop() and held behind the first, has
\* come to its _write after the stop frame was sent and was not sent.
C22_Witness ==
  /\ StopCalls # {} /\ socket = "OPEN"
  /\ cur.seq = 2 /\ ~cur.late /\ pc = "stuck"
  /\ Len(SentChunks) = 1

\* The once('open') listeners hold the one of finish().
StopDeferred == \E i \in DOMAIN onceOpen : onceOpen[i] = "stop"

\* C23: finish() sends the stop frame in the step it is called in when the
\* socket is open; called while the socket is connecting it sends nothing
\* and leaves a listener for 'open', and the step that handles the open
\* event sends the stop frame, after the handshake.  The stop frame is never
\* passed to a socket that is not open.
C23_StopNowOrOnOpen ==
  /\ (finished /\ socket = "OPEN") => StopCalls # {}
  /\ (finished /\ socket = "CONNECTING") => (sendCalls = <<>> /\ StopDeferred)
  /\ \A i \in StopCalls :
       sendCalls[i].rs = "OPEN" /\ i > 1 /\ IsStart(sendCalls[1])

\* The step that handled the open event has sent the handshake, emitted
\* 'open' and then sent the stop frame finish() had deferred.
C23_Witness ==
  /\ finished /\ socket = "OPEN"
  /\ Len(events) = 4
  /\ events[1].name = "send-json" /\ events[2].name = "open"
  /\ events[4].name = "send-json"
  /\ IsStop(sendCalls[Len(sendCalls)])

\* The step just taken emitted 'open'.
Opens == \E i \in DOMAIN events : events[i].name = "open"

\* C24: when the socket opens on a stream whose finish() has run, the
\* frames sent are the handshake, the first chunk and the stop frame, in
\* this order; and a stop frame always has the first chunk before it.
C24_StartChunkStop ==
  /\ (Opens /\ finished) =>
       /\ Len(sendCalls) = 3
       /\ IsStart(sendCalls[1])
       /\ IsBinary(sendCalls[2]) /\ sendCalls[2].chunk.seq = 1
       /\ IsStop(sendCalls[3])
  /\ \A i \in StopCalls :
       \E j \in BinaryCalls : j < i /\ sendCalls[j].chunk.seq = 1

\* stop() was called between the first write and the open event, with a
\* second chunk waiting behind the first, and the socket has opened.
C24_Witness ==
  /\ Opens /\ finished /\ ~ending
  /\ written = 2 /\ wbuf # <<>>
  /\ IsStop(sendCalls[3])

StartCalls == {i \in DOMAIN sendCalls : IsStart(sendCalls[i])}

\* The values of an `action` option.
ActionValues == {"start", "stop", "pause"}

\* C25: the handshake is the first thing passed to socket.send and is sent
\* once, in the step that handles the open event and before 'open' is
\* emitted; it is the handshake initialize() built, its action is 'start',
\* and so is, when it is sent, the action of the handshake initialize()
\* builds from the same options with an action of their own.
C25_HandshakeFirstAndOnce ==
  /\ Cardinality(StartCalls) <= 1
  /\ sendCalls # <<>> => (IsStart(sendCalls[1]) /\ sendCalls[1].rs = "OPEN")
  /\ socket = "OPEN" => StartCalls = {1}
  /\ \A i \in StartCalls : sendCalls[i].msg = openingMessage
  /\ \A i \in DOMAIN events :
       events[i].name = "open" =>
         (i = 2 /\ events[1].name = "send-json" /\ IsStart(sendCalls[1]))
  /\ Opens =>
       \A act \in ActionValues :
         Get(initialize([Self EXCEPT !.options = Put(options, "action", act)])
               .openingMessage, "action") = "start"

\* The socket has opened with two listeners waiting: the handshake went
\* first, then 'open' was emitted and the listeners sent the chunk and the
\* stop frame.
C25_Witness ==
  /\ Opens
  /\ Len(sendCalls) = 3 /\ IsStart(sendCalls[1]) /\ IsStop(sendCalls[3])
  /\ Get(openingMessage, "content-type") = "audio/flac"

\* The step just taken emitted the Writable's 'finish'.
FinishEmitted == \E i \in DOMAIN events : events[i].name = "finish"

\* The steps that bring a pending write nearer to its completion.
Advance ==
  \/ TokenReturn
  \/ SocketOpen
  \/ Drain
  \/ Poll /\ pc' = "tick"
  \/ Tick

\* C26: when 'finish' is emitted after at least one chunk was written,
\* finish() has run, every chunk written has been passed to the open socket
\* and none after the stop frame; and once the input has ended on a
\* transport that has opened and has neither failed nor closed, the stop
\* frame has been sent or a step towards it can be taken.
C26_StopAfterInputEnds ==
  /\ (FinishEmitted /\ written >= 1) =>
       /\ finished
       /\ Len(SentChunks) = written
       /\ \A j \in BinaryCalls : sendCalls[j].rs = "OPEN"
       /\ \A i \in StopCalls : \A j \in BinaryCalls : j < i
  /\ (ending /\ written >= 1 /\ StartCalls # {} /\ transport = "live") =>
       (StopCalls # {} \/ ENABLED Advance)

\* C27: the step that handles the transport's error event emits the error
\* 'WebSocket connection error', clears this.listening and ends the output
\* sequence; no step after it emits a 'data' event.
C27_TransportErrorEnds ==
  /\ [][(transport = "live" /\ transport' = "failed") =>
          /\ "WebSocket connection error" \in errors'
          /\ ~listening'
          /\ ended']_vars
  /\ [](transport # "live" => (ended /\ emitted = <<>>))

\* A connection on which the service was listening has broken.
C27_Witness ==
  /\ "WebSocket connection error" \in errors
  /\ transport = "failed" /\ socket = "OPEN"
  /\ heard /\ ~listening /\ ended

\* C28: the step that handles the transport's close event, after the local
\* close(), after a failure or when the service closes, ends the output
\* sequence, clears this.listening and emits 'close' with the code and the
\* reason of the event; this.listening stays false afterwards.
C28_CloseEndsOutput ==
  /\ [][(transport # "closed" /\ transport' = "closed") =>
          /\ ended' /\ ~listening'
          /\ \E e \in CloseEvents :
               /\ events' = <<Event("close", e.code, e.reason)>>
               /\ (transport = "live" /\ socket = "CLOSING") => e.code = 1000
               /\ transport = "failed" => e.code = 1006]_vars
  /\ [](transport = "closed" => (~listening /\ ended))

\* The close that followed the stream's own close() after the stop frame
\* has been handled.
C28_Witness ==
  /\ events = <<Event("close", 1000, "Normal connection closure")>>
  /\ StopCalls # {} /\ heard
  /\ transport = "closed" /\ ended /\ ~listening

\* C29: stop() leaves the stream as end() followed by finish() does: the
\* same this.finished, the same calls of socket.send, the same listeners
\* for 'open', and the same answer to chunks written afterwards (none is
\* accepted once the input has ended).
C29_StopIsEndThenFinish ==
  [][Stop =>
       LET m == IF ending THEN finish(Self) ELSE finish(end(Self)) IN
       /\ finished' = m.finished
       /\ sendCalls' = m.sendCalls
       /\ onceOpen' = m.onceOpen
       /\ ending' = m.ending]_vars

\* C30: one w3cWebSocket at most is constructed: initialize() has run once
\* when this.initialized is set and never otherwise, also after the
\* transport has failed or closed.
C30_OneConnection ==
  /\ sockets <= 1
  /\ initialized <=> sockets = 1
  /\ socket = "none" <=> sockets = 0

\* A chunk written after the transport closed has been processed on the
\* closed socket, and no second socket was constructed for it.
C30_Witness ==
  /\ transport = "closed" /\ ~finished
  /\ cur.seq = 2 /\ pc = "stuck"
  /\ sockets = 1

\* C31: the wait of afterSend ends: while a write waits on the 10 ms timer,
\* the timer's next test schedules the callback, or the buffer can still
\* drain so that a later test does; this also after the transport has
\* failed or closed with the buffer above the mark.
C31_PollTerminates ==
  pc = "poll" => (ENABLED (Poll /\ pc' = "tick") \/ ENABLED Drain)

\* The deprecated names of initialize(), each with its successor.
LegacyNames ==
  { <<"token", "watson-token">>,
    <<"content_type", "content-type">>,
    <<"X-WDC-PL-OPT-OUT", "X-Watson-Learning-Opt-Out">>,
    <<"customization_id", "language_customization_id">> }

\* C32: initialize() leaves every successor the options supply as it is,
\* and gives a successor they do not supply the value of its deprecated
\* name, and only when that name has one.
C32_MappingOnlyWhenAbsent ==
  [][\A p \in LegacyNames :
       LET old == p[1]
           new == p[2] IN
       /\ new \in DOMAIN options =>
            (new \in DOMAIN options' /\ options'[new] = options[new])
       /\ (new \notin DOMAIN options /\ new \in DOMAIN options') =>
            (Truthy(Get(options, old)) /\ options'[new] = options[old])]_vars

\* C33: initialize() on options that supply customization_id and no
\* language_customization_id gives language_customization_id that value and
\* deletes customization_id, and the query carries the one and not the other.
C33_CustomizationIdRenamed ==
  [][(~initialized /\ Truthy(Get(options, "customization_id"))
        /\ "language_customization_id" \notin DOMAIN options) =>
       /\ Get(options', "language_customization_id") = options["customization_id"]
       /\ "customization_id" \notin DOMAIN options'
       /\ Get(queryParams', "language_customization_id") = options["customization_id"]
       /\ "customization_id" \notin DOMAIN queryParams']_vars

\* The deprecated customization_id has been renamed, and the query carries
\* it under the new name, without a default model.
C33_Witness ==
  /\ initialized
  /\ Get(queryParams, "language_customization_id") = "legacy-model-id"
  /\ "customization_id" \notin DOMAIN queryParams
  /\ "customization_id" \notin DOMAIN options
  /\ "model" \notin DOMAIN queryParams

\* C34: the query carries customization_id or language_customization_id,
\* never both.
C34_NotBothCustomizationIds ==
  ~({"customization_id", "language_customization_id"} \subseteq DOMAIN queryParams)

\* The names under which the options can carry a customization id.
CustomizationIds ==
  {"language_customization_id", "customization_id", "acoustic_customization_id"}

\* C35: the query carries the model the options supply; when they supply
\* none it carries the default model if they have no customization id, and
\* no model if they have one.  (initialize() renames customization_id and
\* removes no other id, so the options have an id after it exactly when
\* they had one before.)
C35_DefaultModel ==
  initialized =>
    IF "model" \in DOMAIN options
      THEN Get(queryParams, "model") = options["model"]
      ELSE IF DOMAIN options \cap CustomizationIds = {}
        THEN Get(queryParams, "model") = "en-US_BroadbandModel"
        ELSE "model" \notin DOMAIN queryParams

\* C36: once initialize() has run, no step changes the options.
C36_OptionsImmutable ==
  [][initialized => options' = options]_vars

\* C37: a call of profile, profileAsCsv, tone or toneChat without its
\* required parameter reports the missing-parameter error, once to the
\* caller's callback or as the rejection of the returned Promise, and
\* createRequest is not called.
C37_MissingParamNoRequest ==
  (rest.phase # "new"
     /\ getMissingParams(rest.params, requiredParams(rest.method))) =>
    /\ rest.requests = 0
    /\ rest.phase = "done"
    /\ rest.outcome = Absent
    /\ IF rest.callback
         THEN rest.called = <<MissingArgs>>
         ELSE rest.promise = "rejected" /\ rest.value = MissingArgs.err

\* A call without callback and without the required parameter: the Promise
\* it returned is rejected with the error and no request was created.
C37_Witness ==
  /\ ~rest.callback /\ rest.returned = "Promise"
  /\ getMissingParams(rest.params, requiredParams(rest.method))
  /\ rest.promise = "rejected" /\ rest.value = "Missing required parameters"
  /\ rest.requests = 0

====
